---------------------------- MODULE Spec2Model ----------------------------
(***************************************************************************)
(* A model of tmb_reporter_simple.py: the VCF reader, the FORMAT/sample    *)
(* decoder, the variant classifier, the TMB computation, the text report   *)
(* and the batch loop of main.                                             *)
(*                                                                         *)
(* Representation.                                                         *)
(*  - A Python str is a sequence of one-character strings, so that         *)
(*    split, upper, int() and float() are computed character by character. *)
(*  - A Python float is a rational [nan, n, d] (d > 0); NaN is nan = TRUE. *)
(*    The comparisons and divisions the program makes on the modelled      *)
(*    values round to the same side in binary floating point.              *)
(*  - None is the empty sequence <<>>, a present value x is <<x>>.         *)
(*  - A text line is the sequence of its tab-separated fields, i.e. the    *)
(*    value of line.rstrip("\n").split("\t").                              *)
(***************************************************************************)
EXTENDS Integers, Sequences, FiniteSets, TLC

VARIABLES
    \* ---- one data line through the reader's loop body and the classifier
    line,          \* the fields of the data line being read
    rec,           \* <<>> or <<variant dict>> appended by read_vcf_variants
    cls,           \* <<>> or <<[kept, reason]>> returned by keep_variant
    \* ---- one file through read_vcf_variants
    file,          \* the file handed to read_vcf_variants
    rd,            \* <<>> or <<what read_vcf_variants raised or returned>>
    \* ---- compute_tmb / make_text_report / the summary row of main
    tin,           \* [kept_count, panel_mb]
    tout,          \* <<>> or <<[tmb, report, row_tmb]>>
    \* ---- main
    cfg,           \* the configuration dict
    vcf,           \* args.vcf: the list of input paths
    i,             \* number of paths the for loop has consumed
    all_rows,      \* all_rows
    summary_rows,  \* summary_rows
    txt_paths,     \* txt_paths
    outdir,        \* the files of the output directory: {[name, content]}
    xlsx,          \* <<>> or <<the workbook write_excel wrote>>
    pd,            \* whether "import pandas" succeeded
    pc,            \* "loop" or "done" ("idle" when main is not running)
    rc             \* <<>> or <<the value main returned>>

vars == <<line, rec, cls, file, rd, tin, tout, cfg, vcf, i, all_rows,
          summary_rows, txt_paths, outdir, xlsx, pd, pc, rc>>

None == <<>>
Some(x) == <<x>>

-----------------------------------------------------------------------------
(* Characters and strings                                                  *)

Digits == {"0", "1", "2", "3", "4", "5", "6", "7", "8", "9"}

DigitVal(c) ==
    CASE c = "0" -> 0 [] c = "1" -> 1 [] c = "2" -> 2 [] c = "3" -> 3
      [] c = "4" -> 4 [] c = "5" -> 5 [] c = "6" -> 6 [] c = "7" -> 7
      [] c = "8" -> 8 [] c = "9" -> 9

\* str.upper(), on the letters the model's alleles use
UpperChar(c) ==
    CASE c = "a" -> "A" [] c = "c" -> "C" [] c = "g" -> "G" [] c = "t" -> "T"
      [] OTHER -> c

Upper(s) == [k \in 1..Len(s) |-> UpperChar(s[k])]

\* str.split(sep) for a one-character separator
RECURSIVE SplitFrom(_, _, _, _)
SplitFrom(s, sep, k, cur) ==
    IF k > Len(s) THEN <<cur>>
    ELSE IF s[k] = sep THEN <<cur>> \o SplitFrom(s, sep, k + 1, <<>>)
    ELSE SplitFrom(s, sep, k + 1, Append(cur, s[k]))

Split(s, sep) == SplitFrom(s, sep, 1, <<>>)

\* sep in s
Contains(s, c) == \E k \in 1..Len(s) : s[k] = c

\* unit * n
RECURSIVE Repeat(_, _)
Repeat(unit, n) == IF n <= 0 THEN <<>> ELSE unit \o Repeat(unit, n - 1)

\* seq[:n]
Prefix(s, n) == SubSeq(s, 1, IF n < Len(s) THEN n ELSE Len(s))

RECURSIVE DigitsValue(_, _)
DigitsValue(s, acc) ==
    IF s = <<>> THEN acc ELSE DigitsValue(Tail(s), 10 * acc + DigitVal(Head(s)))

AllDigits(s) == Len(s) >= 1 /\ \A k \in 1..Len(s) : s[k] \in Digits

\* re.fullmatch(r"\d+", x)
FullMatchDigits(x) == AllDigits(x)

\* int(x): an optional sign and decimal digits; anything else raises
ParseInt(x) ==
    IF AllDigits(x) THEN [ok |-> TRUE, val |-> DigitsValue(x, 0)]
    ELSE IF Len(x) >= 2 /\ x[1] = "-" /\ AllDigits(Tail(x))
        THEN [ok |-> TRUE, val |-> 0 - DigitsValue(Tail(x), 0)]
    ELSE IF Len(x) >= 2 /\ x[1] = "+" /\ AllDigits(Tail(x))
        THEN [ok |-> TRUE, val |-> DigitsValue(Tail(x), 0)]
    ELSE [ok |-> FALSE, val |-> 0]

RECURSIVE Pow10(_)
Pow10(n) == IF n = 0 THEN 1 ELSE 10 * Pow10(n - 1)

NaN == [nan |-> TRUE, n |-> 0, d |-> 1]
Rat(n, d) == [nan |-> FALSE, n |-> n, d |-> d]

IsNan(x) == x.nan

\* x < y on floats; a comparison with NaN is False
FloatLess(x, y) == ~x.nan /\ ~y.nan /\ x.n * y.d < y.n * x.d

\* float(x) of an unsigned decimal literal "ddd", "ddd.ddd", "ddd." or ".ddd"
UnsignedFloat(x) ==
    LET ps == Split(x, ".") IN
    IF Len(ps) = 1 /\ AllDigits(ps[1]) THEN Rat(DigitsValue(ps[1], 0), 1)
    ELSE IF Len(ps) = 2 /\ Len(ps[1]) + Len(ps[2]) >= 1
            /\ (\A k \in 1..Len(ps[1]) : ps[1][k] \in Digits)
            /\ (\A k \in 1..Len(ps[2]) : ps[2][k] \in Digits)
        THEN Rat(DigitsValue(ps[1] \o ps[2], 0), Pow10(Len(ps[2])))
    ELSE NaN

\* safe_float(x): float(x), or math.nan when float raises
safe_float(x) ==
    IF Len(x) >= 1 /\ x[1] = "-"
    THEN LET u == UnsignedFloat(Tail(x)) IN
         IF u.nan THEN NaN ELSE Rat(0 - u.n, u.d)
    ELSE UnsignedFloat(x)

-----------------------------------------------------------------------------
(* CONFIG, lines 27-37.  main overrides panel_mb, panel_name, reference,   *)
(* require_pass and drop_str_artifacts only; the four thresholds are the   *)
(* same in every run.  vaf_min = 0.05 is vaf_min_num / vaf_min_den.        *)

qual_min == 50
dp_min == 100
alt_min == 5
vaf_min_num == 5
vaf_min_den == 100

\* the default panel_mb, 1.20, in hundredths of a megabase
panel_mb_default == 120

Config(panel_mb, require_pass, drop_str_artifacts) ==
    [panel_mb |-> panel_mb,
     qual_min |-> Rat(qual_min, 1),
     dp_min |-> dp_min,
     alt_min |-> alt_min,
     vaf_min |-> Rat(vaf_min_num, vaf_min_den),
     require_pass |-> require_pass,
     drop_str_artifacts |-> drop_str_artifacts]

-----------------------------------------------------------------------------
(* The repeat heuristics, lines 41-66                                      *)

is_homopolymer(seq) ==
    IF seq = <<>> THEN FALSE
    ELSE Cardinality({seq[k] : k \in 1..Len(seq)}) = 1 /\ Len(seq) >= 3

\* a variant of is_dinuc_repeat without the trailing partial unit
is_dinuc_repeat_EvenOnly(seq) ==
    IF seq = <<>> \/ Len(seq) < 4 THEN FALSE
    ELSE seq = Repeat(Prefix(seq, 2), Len(seq) \div 2)

is_dinuc_repeat(seq) ==
    IF seq = <<>> \/ Len(seq) < 4 THEN FALSE
    ELSE LET unit == Prefix(seq, 2) IN
         seq = Repeat(unit, Len(seq) \div 2) \o Prefix(unit, Len(seq) % 2)

looks_like_str_artifact(ref, alt) ==
    LET r == Upper(ref)
        a == Upper(alt)
        alts == IF Contains(a, ",") THEN Split(a, ",") ELSE <<a>>
        alleles == <<r>> \o alts
    IN \E k \in 1..Len(alleles) :
           is_homopolymer(alleles[k]) \/ is_dinuc_repeat(alleles[k])

-----------------------------------------------------------------------------
(* parse_format, lines 74-103                                              *)

GT == <<"G", "T">>
DP == <<"D", "P">>
CLCAD2 == <<"C", "L", "C", "A", "D", "2">>

\* dict(zip(keys, vals)).get(key): the last pair with that key wins
DictGet(keys, vals, key) ==
    LET n == IF Len(keys) < Len(vals) THEN Len(keys) ELSE Len(vals)
        at == {k \in 1..n : keys[k] = key}
    IN IF at = {} THEN None
       ELSE Some(vals[CHOOSE k \in at : \A j \in at : j <= k])

SeqMax(s) == CHOOSE x \in {s[k] : k \in 1..Len(s)} :
                 \A k \in 1..Len(s) : s[k] <= x

\* a variant of AlleleDepths that takes the maximum over every entry, the
\* reference depth included
AlleleDepthsWithRef(ad, dpv) ==
    IF ad # None /\ ad[1] # <<>> /\ ad[1] # <<".">>
    THEN LET parts == SelectSeq(Split(ad[1], ","), LAMBDA p : p # <<>>)
             numeric == SelectSeq(parts, FullMatchDigits)
             depths == [k \in 1..Len(numeric) |-> DigitsValue(numeric[k], 0)]
         IN IF Len(parts) >= 2 /\ depths # <<>>
            THEN [ALT_AD_MAX |-> Some(SeqMax(depths)),
                  VAF |-> IF dpv # None /\ dpv[1] > 0
                          THEN Some(Rat(SeqMax(depths), dpv[1])) ELSE None]
            ELSE [ALT_AD_MAX |-> None, VAF |-> None]
    ELSE [ALT_AD_MAX |-> None, VAF |-> None]

\* lines 91-100: the allele-depth list; dpv is result["DP"]
AlleleDepths(ad, dpv) ==
    IF ad # None /\ ad[1] # <<>> /\ ad[1] # <<".">>
    THEN LET parts == SelectSeq(Split(ad[1], ","), LAMBDA p : p # <<>>) IN
         IF Len(parts) >= 2
         THEN LET numeric == SelectSeq(Tail(parts), FullMatchDigits)
                  alt_depths == [k \in 1..Len(numeric) |-> DigitsValue(numeric[k], 0)]
              IN IF alt_depths # <<>>
                 THEN LET alt_max == SeqMax(alt_depths) IN
                      [ALT_AD_MAX |-> Some(alt_max),
                       VAF |-> IF dpv # None /\ dpv[1] # 0 /\ dpv[1] > 0
                               THEN Some(Rat(alt_max, dpv[1])) ELSE None]
                 ELSE [ALT_AD_MAX |-> None, VAF |-> None]
         ELSE [ALT_AD_MAX |-> None, VAF |-> None]
    ELSE [ALT_AD_MAX |-> None, VAF |-> None]

parse_format(fmt, sample) ==
    LET keys == IF fmt # <<>> THEN Split(fmt, ":") ELSE <<>>
        vals == IF sample # <<>> THEN Split(sample, ":") ELSE <<>>
        gt == DictGet(keys, vals, GT)
        dp == DictGet(keys, vals, DP)
        ad == DictGet(keys, vals, CLCAD2)
        parsed == IF dp # None /\ dp[1] # <<".">> THEN ParseInt(dp[1])
                  ELSE [ok |-> TRUE, val |-> 0]
    IN IF ~parsed.ok
       \* int(dp) raised: the except clause returns what was set so far
       THEN [GT |-> gt, DP |-> None, CLCAD2 |-> None,
             ALT_AD_MAX |-> None, VAF |-> None]
       ELSE LET dpv == IF dp # None /\ dp[1] # <<".">> THEN Some(parsed.val)
                       ELSE None
                d == AlleleDepths(ad, dpv)
            IN [GT |-> gt, DP |-> dpv, CLCAD2 |-> ad,
                ALT_AD_MAX |-> d.ALT_AD_MAX, VAF |-> d.VAF]

-----------------------------------------------------------------------------
(* keep_variant, lines 186-217, and compute_tmb, lines 219-222             *)

PASS == <<"P", "A", "S", "S">>
Dot == <<".">>

Verdict(kept, reason) == [kept |-> kept, reason |-> reason]

\* a variant of keep_variant that tests the quality threshold before FILTER
keep_variant_QualFirst(v, c) ==
    IF FloatLess(v.qual, c.qual_min) THEN Verdict(FALSE, "QUAL<50.0")
    ELSE IF c.require_pass /\ v.filt # Dot /\ v.filt # PASS
        THEN Verdict(FALSE, "FILTER!=PASS")
    ELSE IF IsNan(v.qual) THEN Verdict(FALSE, "QUAL_missing")
    ELSE IF v.dp = None THEN Verdict(FALSE, "DP_missing")
    ELSE IF v.ad_alt_max = None THEN Verdict(FALSE, "AD_alt_missing")
    ELSE IF v.vaf = None THEN Verdict(FALSE, "VAF_missing")
    ELSE IF v.dp[1] < c.dp_min THEN Verdict(FALSE, "DP<100")
    ELSE IF v.ad_alt_max[1] < c.alt_min THEN Verdict(FALSE, "ALT<5")
    ELSE IF FloatLess(v.vaf[1], c.vaf_min) THEN Verdict(FALSE, "VAF<0.05")
    ELSE IF c.drop_str_artifacts /\ looks_like_str_artifact(v.ref, v.alt)
        THEN Verdict(FALSE, "STR_artifact")
    ELSE Verdict(TRUE, "OK")

keep_variant(v, c) ==
    IF c.require_pass /\ v.filt # Dot /\ v.filt # PASS
        THEN Verdict(FALSE, "FILTER!=PASS")
    ELSE IF IsNan(v.qual) THEN Verdict(FALSE, "QUAL_missing")
    ELSE IF v.dp = None THEN Verdict(FALSE, "DP_missing")
    ELSE IF v.ad_alt_max = None THEN Verdict(FALSE, "AD_alt_missing")
    ELSE IF v.vaf = None THEN Verdict(FALSE, "VAF_missing")
    ELSE IF FloatLess(v.qual, c.qual_min) THEN Verdict(FALSE, "QUAL<50.0")
    ELSE IF v.dp[1] < c.dp_min THEN Verdict(FALSE, "DP<100")
    ELSE IF v.ad_alt_max[1] < c.alt_min THEN Verdict(FALSE, "ALT<5")
    ELSE IF FloatLess(v.vaf[1], c.vaf_min) THEN Verdict(FALSE, "VAF<0.05")
    ELSE IF c.drop_str_artifacts /\ looks_like_str_artifact(v.ref, v.alt)
        THEN Verdict(FALSE, "STR_artifact")
    ELSE Verdict(TRUE, "OK")

\* panel_mb is None, or a float in hundredths of a megabase
compute_tmb(kept_count, panel_mb) ==
    IF panel_mb # None /\ panel_mb[1] # 0 /\ panel_mb[1] > 0
    THEN Rat(kept_count * 100, panel_mb[1])
    ELSE NaN

-----------------------------------------------------------------------------
(* read_vcf_variants, lines 122-182.                                       *)
(* A file is [path, exists, lines]; a line is [kind, f] with kind          *)
(*   "meta"    the line starts with "##",                                  *)
(*   "header"  the line starts with "#CHROM"; f is                         *)
(*             line.strip().lstrip("#").split("\t"),                       *)
(*   "comment" any other line that starts with "#",                        *)
(*   "data"    any other line; f is line.rstrip("\n").split("\t").         *)

CHROM == <<"C", "H", "R", "O", "M">>
POS == <<"P", "O", "S">>
ID == <<"I", "D">>
REF == <<"R", "E", "F">>
ALT == <<"A", "L", "T">>
QUAL == <<"Q", "U", "A", "L">>
FILTER == <<"F", "I", "L", "T", "E", "R">>
INFO == <<"I", "N", "F", "O">>
FORMAT == <<"F", "O", "R", "M", "A", "T">>

\* line 136
required == <<CHROM, POS, ID, REF, ALT, QUAL, FILTER>>

In(x, s) == \E k \in 1..Len(s) : s[k] = x

\* list.index(x): the first position of x
IndexOf(s, x) == CHOOSE k \in 1..Len(s) : s[k] = x /\ \A j \in 1..(k - 1) : s[j] # x

\* {name: i for i, name in enumerate(header_cols)}[x]: the last position of x
Idx(s, x) == CHOOSE k \in 1..Len(s) : s[k] = x /\ \A j \in (k + 1)..Len(s) : s[j] # x

\* os.path.basename
basename(path) == LET ps == Split(path, "/") IN ps[Len(ps)]

\* a variant of HeaderOk that does not ask for ID
HeaderOkWithoutId(header_cols) ==
    \A c \in {CHROM, POS, REF, ALT, QUAL, FILTER} : In(c, header_cols)

\* lines 137-138: the header has every required column
HeaderOk(header_cols) == \A k \in 1..Len(required) : In(required[k], header_cols)

\* lines 140-141
SampleName(header_cols) ==
    IF In(FORMAT, header_cols) /\ Len(header_cols) > IndexOf(header_cols, FORMAT)
    THEN Some(header_cols[Len(header_cols)])
    ELSE None

\* "if sample_name", "sample_name or ...": None and "" are false
Truthy(name) == name # None /\ name[1] # <<>>

\* a variant of LineRaises that skips every line whose field count differs
\* from the header's
LineRaisesOnCount(header_cols, sample_name, parts) ==
    \/ Len(parts) # Len(header_cols)
    \/ ~ParseInt(parts[Idx(header_cols, POS)]).ok

\* lines 155-167: whether the try block raises for the fields of a data line
\* (an index past the end of parts, or a POS that int() rejects)
LineRaises(header_cols, sample_name, parts) ==
    LET at(name) == Idx(header_cols, name)
        has(name) == at(name) <= Len(parts)
    IN \/ ~has(CHROM)
       \/ ~has(POS) \/ ~ParseInt(parts[at(POS)]).ok
       \/ ~has(REF)
       \/ ~has(ALT)
       \/ ~has(QUAL)
       \/ ~has(FILTER)
       \/ (In(FORMAT, header_cols) /\ ~has(FORMAT))
       \/ (Truthy(sample_name) /\ ~has(sample_name[1]))

\* lines 153-180: the loop body for one data line; None when the line is
\* skipped
LineVariant(header_cols, sample_name, parts, path) ==
    LET at(name) == Idx(header_cols, name) IN
    IF LineRaises(header_cols, sample_name, parts) THEN None
    ELSE LET fmt == IF In(FORMAT, header_cols) THEN parts[at(FORMAT)] ELSE <<>>
             parsed == IF Truthy(sample_name)
                       THEN parse_format(fmt, parts[at(sample_name[1])])
                       ELSE [GT |-> None, DP |-> None, CLCAD2 |-> None,
                             ALT_AD_MAX |-> None, VAF |-> None]
         IN Some([sample |-> IF Truthy(sample_name)
                             THEN sample_name[1] ELSE basename(path),
                  chrom |-> parts[at(CHROM)],
                  pos |-> ParseInt(parts[at(POS)]).val,
                  ref |-> parts[at(REF)],
                  alt |-> parts[at(ALT)],
                  qual |-> safe_float(parts[at(QUAL)]),
                  filt |-> parts[at(FILTER)],
                  dp |-> parsed.DP,
                  ad_alt_max |-> parsed.ALT_AD_MAX,
                  vaf |-> parsed.VAF])

\* lines 148-180: the second pass over the file
RECURSIVE ReadLines(_, _, _, _, _)
ReadLines(lines, k, header_cols, sample_name, path) ==
    IF k > Len(lines) THEN <<>>
    ELSE LET rest == ReadLines(lines, k + 1, header_cols, sample_name, path) IN
         IF lines[k].kind # "data" THEN rest
         ELSE LineVariant(header_cols, sample_name, lines[k].f, path) \o rest

Raised(type, msg) == [raised |-> type, msg |-> msg, sample |-> <<>>, rows |-> <<>>]
Returned(sample, rows) == [raised |-> "", msg |-> <<>>, sample |-> sample, rows |-> rows]

MsgColumns == <<"Beklenen VCF sutunlari bulunamadi (#CHROM .. QUAL .. FILTER).">>
MsgNoHeader == <<"VCF basligi (#CHROM ...) bulunamadi.">>

read_vcf_variants(f) ==
    IF ~f.exists THEN Raised("FileNotFoundError", f.path)
    ELSE LET hs == {k \in 1..Len(f.lines) : f.lines[k].kind = "header"} IN
         IF hs = {} THEN Raised("ValueError", MsgNoHeader)
         ELSE LET header_cols == f.lines[CHOOSE k \in hs : \A j \in hs : k <= j].f
                  sample_name == SampleName(header_cols)
              IN IF ~HeaderOk(header_cols) THEN Raised("ValueError", MsgColumns)
                 ELSE Returned(
                        IF Truthy(sample_name)
                        THEN sample_name[1] ELSE basename(f.path),
                        ReadLines(f.lines, 1, header_cols, sample_name, f.path))

-----------------------------------------------------------------------------
(* make_text_report, lines 226-260, and process_vcf, lines 275-299.        *)
(* The output directory is a set of [name, content] entries, one per file  *)
(* name; a report's content keeps the lines that depend on the input: the  *)
(* sample, the source path, the kept count, the TMB line and the listing.  *)

\* kept[:20], line 253
ReportListMax == 20

\* x rounded to a multiple of 1/scale, ties to even, as an integer count of
\* 1/scale: the number f"{x:.2f}" prints (scale 100) and round(x, 3)
\* returns (scale 1000), for x >= 0
RoundScaled(x, scale) ==
    LET q == (x.n * scale) \div x.d
        r == (x.n * scale) % x.d
    IN IF 2 * r > x.d THEN q + 1
       ELSE IF 2 * r = x.d THEN q + (q % 2)
       ELSE q

\* open(path, "w"): replaces what the name held
WriteFile(dir, name, content) ==
    {e \in dir : e.name # name} \cup {[name |-> name, content |-> content]}

ReportSuffix == <<"_TMB_report.txt">>

MsgFormatNone == <<"unsupported format string passed to NoneType.__format__">>
MsgNoDir == <<"[Errno 2] No such file or directory">>

\* line 243
TmbLine(tmb) ==
    IF ~IsNan(tmb) THEN [text |-> "TMB (varyant/Mb): ", value |-> RoundScaled(tmb, 100)]
    ELSE [text |-> "TMB: hesaplanamadi (panel_mb eksik)", value |-> 0]

ReportResult(raised, msg, path, tmb, dir) ==
    [raised |-> raised, msg |-> msg, path |-> path, tmb |-> tmb, outdir |-> dir]

make_text_report(sample_name, kept, dropped, dir, c, vcf_path) ==
    LET tmb == compute_tmb(Len(kept), c.panel_mb)
        name == sample_name \o ReportSuffix
        shown == Prefix(kept, ReportListMax)
        content == [sample |-> sample_name,
                    vcf |-> vcf_path,
                    kept |-> Len(kept),
                    tmb |-> TmbLine(tmb),
                    listing |-> [k \in 1..Len(shown) |-> shown[k].pos]]
    IN \* line 237: format(None, ".3f") raises TypeError
       IF c.panel_mb = None
       THEN ReportResult("TypeError", MsgFormatNone, <<>>, tmb, dir)
       \* line 258: the name leads into a directory the output directory
       \* does not hold
       ELSE IF Contains(sample_name, "/")
       THEN ReportResult("FileNotFoundError", MsgNoDir, <<>>, tmb, dir)
       ELSE ReportResult("", <<>>, name, tmb, WriteFile(dir, name, content))

\* lines 280-293
Row(v, verdict) ==
    [sample |-> v.sample, chrom |-> v.chrom, pos |-> v.pos, ref |-> v.ref,
     alt |-> v.alt, qual |-> v.qual, filter |-> v.filt, dp |-> v.dp,
     ad_alt_max |-> v.ad_alt_max, vaf |-> v.vaf,
     kept |-> verdict.kept, reason |-> verdict.reason]

\* lines 278-297: the rows of the variants, each with its verdict
Classified(variants, c) ==
    [k \in 1..Len(variants) |-> Row(variants[k], keep_variant(variants[k], c))]

\* a variant of DropRows that leaves the repeat artifacts out
DropRowsWithoutArtifacts(rows) ==
    SelectSeq(rows, LAMBDA r : ~r.kept /\ r.reason # "STR_artifact")

\* lines 294-297
KeptRows(rows) == SelectSeq(rows, LAMBDA r : r.kept)
DropRows(rows) == SelectSeq(rows, LAMBDA r : ~r.kept)

ProcessResult(raised, msg, sample, kept, dropped, txt_path, tmb, dir) ==
    [raised |-> raised, msg |-> msg, sample |-> sample, kept |-> kept,
     dropped |-> dropped, txt_path |-> txt_path, tmb |-> tmb, outdir |-> dir]

process_vcf(f, dir, c) ==
    LET Reported(r, kept_rows, drop_rows, t) ==
            IF t.raised # ""
            THEN ProcessResult(t.raised, t.msg, <<>>, <<>>, <<>>, <<>>, NaN, dir)
            ELSE ProcessResult("", <<>>, r.sample, kept_rows, drop_rows,
                               t.path, t.tmb, t.outdir)
        Partitioned(r, kept_rows, drop_rows) ==
            Reported(r, kept_rows, drop_rows,
                     make_text_report(r.sample, kept_rows, drop_rows, dir, c, f.path))
        Rows(r, rows) == Partitioned(r, KeptRows(rows), DropRows(rows))
        Read(r) ==
            IF r.raised # ""
            THEN ProcessResult(r.raised, r.msg, <<>>, <<>>, <<>>, <<>>, NaN, dir)
            ELSE Rows(r, Classified(r.rows, c))
    IN Read(read_vcf_variants(f))

-----------------------------------------------------------------------------
(* Inputs.  Strings are drawn from bounded sets and from catalogues of the *)
(* cases the program's branches distinguish.                               *)

\* bounds on the enumerated strings
MaxAlleleLen == 4
MaxAdLen == 4

\* all strings over alphabet of length at most n
Strings(alphabet, n) == UNION {[1..m -> alphabet] : m \in 0..n}

S1 == <<"S", "1">>

\* the ten columns of a single-sample VCF, the layout the docstring names
HeaderStd == <<CHROM, POS, ID, REF, ALT, QUAL, FILTER, INFO, FORMAT, S1>>

\* "a:b:c"
RECURSIVE JoinColon(_)
JoinColon(ss) ==
    IF ss = <<>> THEN <<>>
    ELSE IF Len(ss) = 1 THEN ss[1]
    ELSE ss[1] \o <<":">> \o JoinColon(Tail(ss))

\* The raw pieces of a data line under HeaderStd: keys are the FORMAT keys,
\* gt, dp and ad the sample values of GT, DP and CLCAD2.
RawLine(pos, ref, alt, qual, filt, keys, dp, ad) ==
    [pos |-> pos, ref |-> ref, alt |-> alt, qual |-> qual, filt |-> filt,
     keys |-> keys, dp |-> dp, ad |-> ad]

GtValue == <<"0", "/", "1">>

ValueOf(raw, key) ==
    IF key = DP THEN raw.dp ELSE IF key = CLCAD2 THEN raw.ad ELSE GtValue

\* the fields of the line: line.rstrip("\n").split("\t")
Parts(raw) ==
    <<<<"c", "h", "r", "1">>, raw.pos, <<".">>, raw.ref, raw.alt, raw.qual,
      raw.filt, <<".">>, JoinColon(raw.keys),
      JoinColon([k \in 1..Len(raw.keys) |-> ValueOf(raw, raw.keys[k])])>>

KeysStd == <<GT, DP, CLCAD2>>
KeyLayouts == {KeysStd, <<GT, CLCAD2, DP>>, <<GT, CLCAD2>>, <<GT, DP>>}

P100 == <<"1", "0", "0">>
Q80 == <<"8", "0">>
D150 == <<"1", "5", "0">>
Ad100_20 == <<"1", "0", "0", ",", "2", "0">>
FilterQ10 == <<"q", "1", "0">>

\* inputs of the classifier: every rule of keep_variant can be the first to fail
KeepFilters == {PASS, Dot, FilterQ10}
KeepQuals == {Dot, <<"4", "9", ".", "9">>, <<"5", "0">>, Q80}
KeepDepths == {Dot, <<"0">>, <<"9", "9">>, <<"1", "0", "0">>, D150}
KeepAds == {Dot, <<"9">>, <<"1", "0", "0", ",", "4">>,
            <<"1", "0", "0", ",", "5">>, Ad100_20}
KeepAlleles == {<<<<"A">>, <<"T">>>>, <<<<"A">>, <<"A", "A", "A", "A">>>>}
KeepKeys == {KeysStd, <<GT, CLCAD2>>}

KeepLines ==
    {RawLine(P100, al[1], al[2], q, f, ks, d, a) :
        al \in KeepAlleles, q \in KeepQuals, f \in KeepFilters,
        ks \in KeepKeys, d \in KeepDepths, a \in KeepAds}

\* inputs of the repeat heuristics
AlleleAlphabet == {"A", "C", "a", ","}
NamedAlleles ==
    {<<>>, <<"A", "A", "A">>, <<"G", "G", "G", "G">>, <<"A", "C", "A", "C">>,
     <<"G", "T", "G", "T", "G">>, <<"A", "G">>, <<"A", "C", "G", "T">>,
     <<"A">>, <<"A", "A", "A", "A">>, <<"a", "c", "a", "c", "a">>,
     <<"T", ",", "g", "g", "g">>}
StrRefs == {<<"A">>, <<"A", "G">>, <<"c", "c", "c">>, <<"A", "C", "A", "C">>, <<>>}
StrAlts == Strings(AlleleAlphabet, MaxAlleleLen) \cup NamedAlleles

StrLines ==
    {RawLine(P100, r, a, Q80, PASS, KeysStd, d, Ad100_20) :
        r \in StrRefs \cup NamedAlleles, a \in StrAlts, d \in {D150, <<"9", "9">>}}
    \cup
    {RawLine(P100, r, a, Q80, PASS, KeysStd, D150, Ad100_20) :
        r \in NamedAlleles, a \in NamedAlleles}

\* inputs of the decoder
AdAlphabet == {"1", "2", ",", "x"}
FmtDepths == {<<>>, Dot, <<"0">>, <<"1">>, <<"3">>, <<"-", "1">>, <<"x">>,
              <<"1", "2", "0">>}
FmtAds == Strings(AdAlphabet, MaxAdLen)
          \cup {Dot, <<"6", "0", ",", "4", "0">>, <<",", "6", "0", ",", "4", "0">>}

FmtLines ==
    {RawLine(P100, <<"A">>, <<"T">>, Q80, PASS, ks, d, a) :
        ks \in KeyLayouts, d \in FmtDepths, a \in FmtAds}

Configs(panels) ==
    {Config(p, rp, ds) : p \in panels, rp \in BOOLEAN, ds \in BOOLEAN}

PathLine == <<"l", ".", "v", "c", "f">>

-----------------------------------------------------------------------------
(* One data line: the body of the reader's loop, then the classifier       *)

\* the variables of the other parts, at rest
IdleFile == file = <<>> /\ rd = <<>>
IdleTmb == tin = <<>> /\ tout = <<>>
IdleMain ==
    /\ vcf = <<>> /\ i = 0 /\ all_rows = <<>> /\ summary_rows = <<>>
    /\ txt_paths = <<>> /\ outdir = {} /\ xlsx = <<>> /\ pd = FALSE
    /\ pc = "idle" /\ rc = <<>>
IdleLine == line = <<>> /\ rec = <<>> /\ cls = <<>>

lineVars == <<line, rec, cls>>
fileVars == <<file, rd>>
tmbVars == <<tin, tout>>
mainVars == <<vcf, i, all_rows, summary_rows, txt_paths, outdir, xlsx, pd, pc, rc>>

InitLine(lines) ==
    /\ line \in {Some(l) : l \in lines}
    /\ rec = <<>> /\ cls = <<>>
    /\ cfg \in Configs({Some(panel_mb_default)})
    /\ IdleFile /\ IdleTmb /\ IdleMain

\* lines 153-180 for the line
ReadLine ==
    /\ line # <<>> /\ rec = <<>>
    /\ rec' = Some(LineVariant(HeaderStd, SampleName(HeaderStd),
                               Parts(line[1]), PathLine))
    /\ UNCHANGED <<line, cls, cfg, fileVars, tmbVars, mainVars>>

\* line 279 for the variant read
ClassifyLine ==
    /\ rec # <<>> /\ rec[1] # None /\ cls = <<>>
    /\ cls' = Some(keep_variant(rec[1][1], cfg))
    /\ UNCHANGED <<line, rec, cfg, fileVars, tmbVars, mainVars>>

NextLine == ReadLine \/ ClassifyLine

SpecKeep == InitLine(KeepLines) /\ [][NextLine]_vars
SpecStr == InitLine(StrLines) /\ [][NextLine]_vars
SpecFmt == InitLine(FmtLines) /\ [][NextLine]_vars

-----------------------------------------------------------------------------
(* Properties of the classifier and the decoder                            *)

\* the variant read from the line, and its verdict
TheVariant == rec[1][1]
TheVerdict == cls[1]
Classified1 == rec # <<>> /\ rec[1] # None /\ cls # <<>>

\* The rules of keep_variant as the specification lists them, each as the
\* condition under which it fails.
RuleFails(k, v, c) ==
    CASE k = 1 -> c.require_pass /\ v.filt \notin {Dot, PASS}
      [] k = 2 -> v.qual.nan
      [] k = 3 -> v.dp = None
      [] k = 4 -> v.ad_alt_max = None
      [] k = 5 -> v.vaf = None
      [] k = 6 -> ~v.qual.nan /\ v.qual.n < qual_min * v.qual.d
      [] k = 7 -> v.dp # None /\ v.dp[1] < dp_min
      [] k = 8 -> v.ad_alt_max # None /\ v.ad_alt_max[1] < alt_min
      [] k = 9 -> v.vaf # None /\ v.vaf[1].n * vaf_min_den < vaf_min_num * v.vaf[1].d
      [] k = 10 -> c.drop_str_artifacts /\ looks_like_str_artifact(v.ref, v.alt)

RuleReason ==
    <<"FILTER!=PASS", "QUAL_missing", "DP_missing", "AD_alt_missing",
      "VAF_missing", "QUAL<50.0", "DP<100", "ALT<5", "VAF<0.05", "STR_artifact">>

FailingRules(v, c) == {k \in 1..10 : RuleFails(k, v, c)}

\* C2: keep_variant returns the reason of the first rule that fails, in the
\* order FILTER, missing QUAL/DP/ALT/VAF, QUAL/DP/ALT/VAF below the minimum,
\* repeat artifact; it keeps the variant, with reason "OK", exactly when no
\* rule fails.
C2_FirstFailingRule ==
    Classified1 =>
        LET failing == FailingRules(TheVariant, cfg) IN
        IF failing = {}
        THEN TheVerdict.kept /\ TheVerdict.reason = "OK"
        ELSE /\ ~TheVerdict.kept
             /\ TheVerdict.reason # "OK"
             /\ TheVerdict.reason =
                  RuleReason[CHOOSE k \in failing : \A j \in failing : k <= j]

\* a record that fails both the PASS requirement and the quality threshold
\* was classified, and reports "FILTER!=PASS"
C2_Witness ==
    /\ Classified1
    /\ RuleFails(1, TheVariant, cfg) /\ RuleFails(6, TheVariant, cfg)
    /\ TheVerdict = Verdict(FALSE, "FILTER!=PASS")

\* The repeat patterns as the specification words them.
Homopolymer(s) == Len(s) >= 3 /\ \A j, k \in 1..Len(s) : s[j] = s[k]

Dinucleotide(s) ==
    Len(s) >= 4 /\ \A k \in 1..Len(s) : s[k] = s[IF k % 2 = 1 THEN 1 ELSE 2]

\* the comma-separated alleles of u: its maximal comma-free segments
AllelesOf(u) ==
    {SubSeq(u, a, b) : <<a, b>> \in
        {p \in (1..(Len(u) + 1)) \X (0..Len(u)) :
            /\ p[2] >= p[1] - 1
            /\ \A k \in p[1]..p[2] : u[k] # ","
            /\ (p[1] = 1 \/ u[p[1] - 1] = ",")
            /\ (p[2] = Len(u) \/ u[p[2] + 1] = ",")}}

RepeatAllele(ref, alt) ==
    \E s \in {Upper(ref)} \cup AllelesOf(Upper(alt)) :
        Homopolymer(s) \/ Dinucleotide(s)

NamedRepeats ==
    {<<"A", "A", "A">>, <<"G", "G", "G", "G">>, <<"A", "C", "A", "C">>,
     <<"G", "T", "G", "T", "G">>}
NamedNonRepeats == {<<"A", "G">>, <<>>, <<"A", "C", "G", "T">>}

\* C6: with drop_str_artifacts set, a record that passes the PASS, presence
\* and threshold rules is dropped with "STR_artifact" exactly when the
\* uppercased REF or one uppercased comma-separated ALT allele is a
\* homopolymer (length >= 3) or a dinucleotide repeat (length >= 4, with a
\* trailing partial unit when the length is odd); otherwise it is kept.
C6_RepeatArtifact ==
    (Classified1 /\ cfg.drop_str_artifacts
        /\ FailingRules(TheVariant, cfg) \cap (1..9) = {}) =>
        /\ IF RepeatAllele(TheVariant.ref, TheVariant.alt)
           THEN TheVerdict = Verdict(FALSE, "STR_artifact")
           ELSE TheVerdict = Verdict(TRUE, "OK")
        /\ (TheVariant.ref \in NamedNonRepeats /\ TheVariant.alt \in NamedRepeats)
              => TheVerdict = Verdict(FALSE, "STR_artifact")
        /\ (TheVariant.ref \in NamedNonRepeats /\ TheVariant.alt \in NamedNonRepeats)
              => TheVerdict = Verdict(TRUE, "OK")

\* ref = "A", alt = "AAAA" passes every threshold and is dropped as a repeat
C6_Witness ==
    /\ Classified1 /\ cfg.drop_str_artifacts
    /\ FailingRules(TheVariant, cfg) \cap (1..9) = {}
    /\ TheVariant.ref = <<"A">> /\ TheVariant.alt = <<"A", "A", "A", "A">>
    /\ TheVerdict = Verdict(FALSE, "STR_artifact")

\* The decoder's inputs as the line gives them.
HasDepth(raw) == In(DP, raw.keys)
HasAd(raw) == In(CLCAD2, raw.keys)

\* the depth, when the DP value is an integer
DepthOf(raw) ==
    IF HasDepth(raw) /\ ParseInt(raw.dp).ok THEN Some(ParseInt(raw.dp).val)
    ELSE None

NumericValues(entries) ==
    {DigitsValue(entries[k], 0) : k \in {j \in 1..Len(entries) : AllDigits(entries[j])}}

SetMax(s) == CHOOSE x \in s : \A y \in s : y <= x

\* ALT_AD_MAX and VAF as the claim derives them from the alternate entries
DecodedAs(v, depth, alts) ==
    LET numeric == NumericValues(alts) IN
    /\ v.ad_alt_max = IF numeric = {} THEN None ELSE Some(SetMax(numeric))
    /\ v.vaf = IF depth # None /\ depth[1] > 0 /\ numeric # {}
               THEN Some(Rat(SetMax(numeric), depth[1])) ELSE None

\* C7 as stated: the first comma-separated entry is the reference depth, the
\* rest are alternate depths; ALT_AD_MAX is the largest numeric alternate
\* entry and VAF = ALT_AD_MAX / depth exactly when depth > 0 and an alternate
\* entry is numeric.
C7_AsStated ==
    (rec # <<>> /\ rec[1] # None) =>
        LET raw == line[1]
            entries == IF HasAd(raw) THEN Split(raw.ad, ",") ELSE <<>>
            alts == IF entries = <<>> THEN <<>> ELSE Tail(entries)
        IN DecodedAs(TheVariant, DepthOf(raw), alts)

\* C7 amended: the entries are the non-empty comma-separated entries, and a
\* DP value that is neither "." nor an integer leaves both ALT_AD_MAX and VAF
\* absent.
C7_Decoded ==
    (rec # <<>> /\ rec[1] # None) =>
        LET raw == line[1]
            entries == IF HasAd(raw)
                       THEN SelectSeq(Split(raw.ad, ","), LAMBDA e : Len(e) > 0)
                       ELSE <<>>
            alts == IF entries = <<>> THEN <<>> ELSE Tail(entries)
            unparsable == HasDepth(raw) /\ raw.dp # Dot /\ ~ParseInt(raw.dp).ok
        IN IF unparsable
           THEN TheVariant.ad_alt_max = None /\ TheVariant.vaf = None
           ELSE DecodedAs(TheVariant, DepthOf(raw), alts)

\* depth 120 with allele depths "60,40" was decoded: ALT_AD_MAX 40, VAF 40/120
C7_Witness ==
    /\ rec # <<>> /\ rec[1] # None
    /\ line[1].keys = KeysStd
    /\ line[1].dp = <<"1", "2", "0">> /\ line[1].ad = <<"6", "0", ",", "4", "0">>
    /\ TheVariant.dp = Some(120)
    /\ TheVariant.ad_alt_max = Some(40)
    /\ TheVariant.vaf = Some(Rat(40, 120))

\* C8: the variant allele fraction of every record the reader produces is
\* absent or lies in [0, 1].
C8_VafInUnitRange ==
    (rec # <<>> /\ rec[1] # None) =>
        \/ TheVariant.vaf = None
        \/ /\ 0 <= TheVariant.vaf[1].n
           /\ TheVariant.vaf[1].n <= TheVariant.vaf[1].d

-----------------------------------------------------------------------------
(* One file through read_vcf_variants                                      *)

MaxLines == 2

Meta == [kind |-> "meta", f |-> <<>>]
Comment == [kind |-> "comment", f |-> <<>>]
Hdr(cols) == [kind |-> "header", f |-> cols]
Data(parts) == [kind |-> "data", f |-> parts]

\* header lines: ten columns; eight (no FORMAT, no sample); nine (FORMAT
\* last); no ID; no QUAL
Header8 == SubSeq(HeaderStd, 1, 8)
Header9 == SubSeq(HeaderStd, 1, 9)
HeaderNoId == <<CHROM, POS, REF, ALT, QUAL, FILTER, INFO, FORMAT, S1>>
HeaderNoQual == <<CHROM, POS, ID, REF, ALT, FILTER, INFO, FORMAT, S1>>
Headers == {HeaderStd, Header8, Header9, HeaderNoId, HeaderNoQual}

Pos(a, b, c) == <<a, b, c>>
GoodLine(pos, ref, alt) ==
    Parts(RawLine(pos, ref, alt, Q80, PASS, KeysStd, D150, Ad100_20))

\* data lines with 10, 11, 9, 8 and 7 fields, one whose POS is no integer,
\* and a blank line
Line10 == GoodLine(P100, <<"A">>, <<"T">>)
Line11 == Append(GoodLine(Pos("2", "0", "0"), <<"A">>, <<"T">>), <<"x">>)
Line9 == SubSeq(GoodLine(Pos("3", "0", "0"), <<"A">>, <<"T">>), 1, 9)
Line8 == SubSeq(GoodLine(Pos("4", "0", "0"), <<"A">>, <<"T">>), 1, 8)
Line7 == SubSeq(GoodLine(Pos("5", "0", "0"), <<"A">>, <<"T">>), 1, 7)
LineBadPos == GoodLine(Pos("a", "b", "c"), <<"A">>, <<"T">>)
LineBlank == <<<<>>>>

BodyLines ==
    {Data(Line10), Data(Line11), Data(Line9), Data(Line8), Data(Line7),
     Data(LineBadPos), Data(LineBlank), Comment}

Bodies == UNION {[1..m -> BodyLines] : m \in 0..MaxLines}

MkFile(path, exists, lines) == [path |-> path, exists |-> exists, lines |-> lines]

PathRead == <<"r", ".", "v", "c", "f">>

ReadFiles ==
    {MkFile(PathRead, e, pre \o h \o b) :
        e \in BOOLEAN, pre \in {<<>>, <<Meta>>},
        h \in {<<>>} \cup {<<Hdr(c)>> : c \in Headers}, b \in Bodies}

InitRead ==
    /\ file \in {Some(f) : f \in ReadFiles}
    /\ rd = <<>>
    /\ cfg = Config(Some(panel_mb_default), TRUE, TRUE)
    /\ IdleLine /\ IdleTmb /\ IdleMain

\* read_vcf_variants(vcf_path)
ReadFile ==
    /\ file # <<>> /\ rd = <<>>
    /\ rd' = Some(read_vcf_variants(file[1]))
    /\ UNCHANGED <<file, cfg, lineVars, tmbVars, mainVars>>

NextRead == ReadFile

SpecRead == InitRead /\ [][NextRead]_vars

TheFile == file[1]
TheRead == rd[1]

HeaderLines(f) == SelectSeq(f.lines, LAMBDA l : l.kind = "header")
DataLines(f) == SelectSeq(f.lines, LAMBDA l : l.kind = "data")

\* the POS field of a data line under the header, as int() reads it
PosOf(l, hdr) == ParseInt(l.f[Idx(hdr, POS)]).val

\* C9 as stated: a data line yields a record exactly when its field count
\* equals the header's column count.
C9_AsStated ==
    (rd # <<>> /\ TheRead.raised = "") =>
        LET hdr == HeaderLines(TheFile)[1].f
            match == SelectSeq(DataLines(TheFile), LAMBDA l : Len(l.f) = Len(hdr))
        IN /\ Len(TheRead.rows) = Len(match)
           /\ \A k \in 1..Len(match) : TheRead.rows[k].pos = PosOf(match[k], hdr)

\* the positions of the columns the reader reads from a data line
UsedColumns(hdr) ==
    {Idx(hdr, c) : c \in {CHROM, POS, REF, ALT, QUAL, FILTER}}
    \cup (IF In(FORMAT, hdr) THEN {Idx(hdr, FORMAT)} ELSE {})
    \cup (IF In(FORMAT, hdr) /\ IndexOf(hdr, FORMAT) < Len(hdr) THEN {Len(hdr)} ELSE {})

Readable(l, hdr) ==
    /\ \A k \in UsedColumns(hdr) : k <= Len(l.f)
    /\ ParseInt(l.f[Idx(hdr, POS)]).ok

\* C9 amended: a data line yields a record exactly when it has a field at
\* the position of every column the reader reads (CHROM, POS, REF, ALT, QUAL,
\* FILTER, FORMAT when the header has it, the last column when one follows
\* FORMAT) and its POS field is an integer; every other data line is skipped,
\* and no error is raised.
C9_ReadableLines ==
    (rd # <<>> /\ TheFile.exists /\ HeaderLines(TheFile) # <<>>
        /\ HeaderOk(HeaderLines(TheFile)[1].f)) =>
        LET hdr == HeaderLines(TheFile)[1].f
            good == SelectSeq(DataLines(TheFile), LAMBDA l : Readable(l, hdr))
        IN /\ TheRead.raised = ""
           /\ Len(TheRead.rows) = Len(good)
           /\ \A k \in 1..Len(good) : TheRead.rows[k].pos = PosOf(good[k], hdr)

\* a line with an extra field was read and a line without the sample column
\* was skipped
C9_Witness ==
    /\ rd # <<>> /\ TheRead.raised = ""
    /\ HeaderLines(TheFile)[1].f = HeaderStd
    /\ DataLines(TheFile) = <<Data(Line11), Data(Line9)>>
    /\ Len(TheRead.rows) = 1 /\ TheRead.rows[1].pos = 200

SixColumns == {CHROM, POS, REF, ALT, QUAL, FILTER}

\* what the reader must do given the columns a header has to have
ReaderOutcome(mandatory) ==
    rd # <<>> =>
        IF ~TheFile.exists THEN TheRead.raised = "FileNotFoundError"
        ELSE IF HeaderLines(TheFile) = <<>> THEN TheRead.raised = "ValueError"
        ELSE IF \E c \in mandatory : ~In(c, HeaderLines(TheFile)[1].f)
            THEN TheRead.raised = "ValueError"
        ELSE /\ TheRead.raised = ""
             /\ Len(TheRead.rows) <= Len(DataLines(TheFile))
             /\ \A k \in 1..Len(TheRead.rows) : TheRead.rows[k].sample = TheRead.sample

\* C10 as stated: FileNotFoundError for a missing path, a format error for a
\* missing header or a header lacking one of CHROM, POS, REF, ALT, QUAL,
\* FILTER, and no error for a header that has those six.
C10_AsStated == ReaderOutcome(SixColumns)

\* C10 amended: the mandatory columns are the seven CHROM, POS, ID, REF, ALT,
\* QUAL, FILTER.
C10_SevenColumns == ReaderOutcome(SixColumns \cup {ID})

\* a header with the six columns but no ID was rejected
C10_Witness ==
    /\ rd # <<>> /\ TheFile.exists
    /\ HeaderLines(TheFile) = <<Hdr(HeaderNoId)>>
    /\ TheRead.raised = "ValueError" /\ TheRead.msg = MsgColumns

-----------------------------------------------------------------------------
(* compute_tmb, the text report and the TMB of the summary row             *)

MaxKept == 12

\* panel sizes in hundredths of a megabase: absent, negative, zero, positive
TmbPanels == {None, Some(-120), Some(0), Some(50), Some(100), Some(120), Some(250)}

\* line 369
SummaryTmb(tmb_val) ==
    IF ~IsNan(tmb_val) THEN Some(RoundScaled(tmb_val, 1000)) ELSE None

KeptRow(k) ==
    Row([sample |-> S1, chrom |-> <<"c", "h", "r", "1">>, pos |-> k,
         ref |-> <<"A">>, alt |-> <<"T">>, qual |-> Rat(80, 1), filt |-> PASS,
         dp |-> Some(150), ad_alt_max |-> Some(20), vaf |-> Some(Rat(20, 150))],
        Verdict(TRUE, "OK"))

InitTmb ==
    /\ tin \in {Some([kept_count |-> k, panel_mb |-> p]) :
                    k \in 0..MaxKept, p \in TmbPanels}
    /\ tout = <<>>
    /\ cfg = Config(tin[1].panel_mb, TRUE, TRUE)
    /\ IdleLine /\ IdleFile /\ IdleMain

\* The report and the summary TMB for kept_count kept rows: lines 228-260
\* of make_text_report, then line 369 of main when the report was written.
ReportTmb ==
    /\ tin # <<>> /\ tout = <<>>
    /\ LET kept == [k \in 1..tin[1].kept_count |-> KeptRow(k)]
           t == make_text_report(S1, kept, <<>>, {}, cfg, PathLine)
       IN tout' = Some([tmb |-> compute_tmb(tin[1].kept_count, cfg.panel_mb),
                        raised |-> t.raised,
                        report |-> t.outdir,
                        row_tmb |-> IF t.raised = "" THEN SummaryTmb(t.tmb) ELSE None])
    /\ UNCHANGED <<tin, cfg, lineVars, fileVars, mainVars>>

NextTmb == ReportTmb

SpecTmb == InitTmb /\ [][NextTmb]_vars

\* C5: TMB = kept_count / panel_mb when panel_mb is present and positive
\* (12 and 1.2 give 10); when panel_mb is absent, zero or negative the result
\* is NaN, no error is raised, the report says "not computable" and the
\* summary row carries no TMB.
C5_TmbOrNotComputable ==
    tout # <<>> =>
        LET k == tin[1].kept_count
            p == tin[1].panel_mb
            o == tout[1]
        IN IF p # None /\ p[1] > 0
           THEN /\ ~o.tmb.nan
                /\ o.tmb.n * p[1] = k * 100 * o.tmb.d
                /\ (k = 12 /\ p[1] = 120) => o.tmb.n = 10 * o.tmb.d
           ELSE /\ o.tmb.nan
                /\ o.raised = ""
                /\ \E e \in o.report :
                       e.content.tmb.text = "TMB: hesaplanamadi (panel_mb eksik)"
                /\ o.row_tmb = None

-----------------------------------------------------------------------------
(* main, lines 342-401: the batch loop over args.vcf                       *)

MaxFiles == 2

PathA == <<"a", ".", "v", "c", "f">>
PathB == <<"b", ".", "v", "c", "f">>
PathC == <<"d", "/", "c", ".", "v", "c", "f">>
PathM == <<"m", ".", "v", "c", "f">>
PathN == <<"n", ".", "v", "c", "f">>
PathQ == <<"q", ".", "v", "c", "f">>
PathS == <<"s", ".", "v", "c", "f">>

\* a.vcf, sample S1: two variants that pass, one with FILTER q10, one repeat
\* artifact, one line of two fields, one shallow variant
FileA ==
    MkFile(PathA, TRUE,
      <<Meta, Hdr(HeaderStd),
        Data(GoodLine(Pos("1", "0", "0"), <<"A">>, <<"T">>)),
        Data(GoodLine(Pos("1", "0", "1"), <<"C">>, <<"G">>)),
        Data(Parts(RawLine(Pos("1", "0", "2"), <<"A">>, <<"T">>, Q80, FilterQ10,
                           KeysStd, D150, Ad100_20))),
        Data(GoodLine(Pos("1", "0", "3"), <<"A">>, <<"A", "A", "A", "A">>)),
        Data(<<<<"c", "h", "r", "1">>, Pos("1", "0", "4")>>),
        Data(Parts(RawLine(Pos("1", "0", "5"), <<"A">>, <<"T">>, Q80, PASS,
                           KeysStd, <<"1", "0">>, <<"5", ",", "2", "0">>)))>>)

\* b.vcf, sample S1 again: one variant that passes
FileB ==
    MkFile(PathB, TRUE,
      <<Hdr(HeaderStd), Data(GoodLine(Pos("2", "0", "0"), <<"G">>, <<"C">>))>>)

\* d/c.vcf: eight columns, no sample; the sample is the file's basename
FileC ==
    MkFile(PathC, TRUE,
      <<Hdr(Header8), Data(SubSeq(GoodLine(Pos("3", "0", "0"), <<"A">>, <<"T">>), 1, 8))>>)

\* m.vcf does not exist; n.vcf has no header; q.vcf has no QUAL column
FileM == MkFile(PathM, FALSE, <<>>)
FileN == MkFile(PathN, TRUE, <<Meta, Data(Line10)>>)
FileQ == MkFile(PathQ, TRUE, <<Hdr(HeaderNoQual), Data(Line10)>>)

\* s.vcf: the sample column is named "x/y"
FileS ==
    MkFile(PathS, TRUE,
      <<Hdr(SubSeq(HeaderStd, 1, 9) \o <<<<"x", "/", "y">>>>), Data(Line10)>>)

FileSystem == {FileA, FileB, FileC, FileM, FileN, FileQ, FileS}
Paths == {f.path : f \in FileSystem}
File(path) == CHOOSE f \in FileSystem : f.path = path

\* lines 361-376
SuccessRow(r, vcf_path, c) ==
    [sample |-> r.sample, vcf |-> vcf_path, panel_mb |-> c.panel_mb,
     kept_variants |-> Some(Len(r.kept)),
     dropped_variants |-> Some(Len(r.dropped)),
     tmb_variants_per_mb |-> SummaryTmb(r.tmb),
     error |-> None]

\* a variant of ErrorRow that reports zero counts for a failed file
ErrorRowZeroCounts(r, vcf_path, c) ==
    [sample |-> basename(vcf_path), vcf |-> vcf_path, panel_mb |-> c.panel_mb,
     kept_variants |-> Some(0),
     dropped_variants |-> Some(0),
     tmb_variants_per_mb |-> None,
     error |-> Some(r.msg)]

\* lines 379-389
ErrorRow(r, vcf_path, c) ==
    [sample |-> basename(vcf_path), vcf |-> vcf_path, panel_mb |-> c.panel_mb,
     kept_variants |-> None,
     dropped_variants |-> None,
     tmb_variants_per_mb |-> None,
     error |-> Some(r.msg)]

\* the command line gives panel_mb as a float
MainPanels == {Some(panel_mb_default), Some(0)}

Init ==
    /\ vcf \in UNION {[1..m -> Paths] : m \in 0..MaxFiles}
    /\ cfg \in Configs(MainPanels)
    /\ pd \in BOOLEAN
    /\ i = 0 /\ all_rows = <<>> /\ summary_rows = <<>> /\ txt_paths = <<>>
    /\ outdir = {} /\ xlsx = <<>> /\ pc = "loop" /\ rc = <<>>
    /\ IdleLine /\ IdleFile /\ IdleTmb

\* lines 356-389: one iteration of the for loop
ProcessNext ==
    /\ pc = "loop" /\ i < Len(vcf)
    /\ \E r \in {process_vcf(File(vcf[i + 1]), outdir, cfg)} :
          IF r.raised = ""
          THEN /\ txt_paths' = Append(txt_paths, r.txt_path)
               /\ all_rows' = all_rows \o r.kept \o r.dropped
               /\ summary_rows' = Append(summary_rows, SuccessRow(r, vcf[i + 1], cfg))
               /\ outdir' = r.outdir
          ELSE /\ summary_rows' = Append(summary_rows, ErrorRow(r, vcf[i + 1], cfg))
               /\ UNCHANGED <<txt_paths, all_rows, outdir>>
    /\ i' = i + 1
    /\ UNCHANGED <<vcf, cfg, pd, xlsx, pc, rc, lineVars, fileVars, tmbVars>>

\* lines 391-401: write_excel (lines 262-271) when pandas is there, return 0
Finish ==
    /\ pc = "loop" /\ i = Len(vcf)
    /\ xlsx' = IF pd THEN Some([summary |-> summary_rows, variants |-> all_rows])
               ELSE None
    /\ rc' = Some(0)
    /\ pc' = "done"
    /\ UNCHANGED <<vcf, cfg, pd, i, all_rows, summary_rows, txt_paths, outdir,
                   lineVars, fileVars, tmbVars>>

Next == ProcessNext \/ Finish

Spec == Init /\ [][Next]_vars

-----------------------------------------------------------------------------
(* Properties of the batch                                                 *)

RowOk(j) == summary_rows[j].error = None
RowCount(j) == summary_rows[j].kept_variants[1] + summary_rows[j].dropped_variants[1]

\* the number of rows the successful files before the j-th path reported
RECURSIVE RowsBefore(_)
RowsBefore(j) ==
    IF j <= 1 THEN 0
    ELSE RowsBefore(j - 1) + (IF RowOk(j - 1) THEN RowCount(j - 1) ELSE 0)

\* the rows the j-th path added to all_rows
RowsOf(j) == SubSeq(all_rows, RowsBefore(j) + 1, RowsBefore(j) + RowCount(j))

PosSet(rows) == {rows[k].pos : k \in 1..Len(rows)}

\* the POS values of the data lines of f that the reader skips although their
\* POS field is an integer
SkippedPos(f) ==
    LET hdr == HeaderLines(f)[1].f
        at == Idx(hdr, POS)
    IN {ParseInt(l.f[at]).val :
          l \in {DataLines(f)[k] : k \in {m \in 1..Len(DataLines(f)) :
                    /\ at <= Len(DataLines(f)[m].f)
                    /\ ParseInt(DataLines(f)[m].f[at]).ok
                    /\ ~Readable(DataLines(f)[m], hdr)}}}

\* C1: for every file processed without error, each record the reader
\* produced is classified once and sits in exactly one of the kept and the
\* dropped list, so kept + dropped is the number of records; the lines the
\* reader skipped are in neither.
C1_KeptPlusDropped ==
    /\ Len(all_rows) = RowsBefore(Len(summary_rows) + 1)
    /\ \A j \in 1..Len(summary_rows) : RowOk(j) =>
         LET f == File(vcf[j])
             r == read_vcf_variants(f)
             nk == summary_rows[j].kept_variants[1]
         IN /\ r.raised = ""
            /\ RowCount(j) = Len(r.rows)
            /\ RowsBefore(j) + RowCount(j) <= Len(all_rows)
            /\ \A k \in 1..Len(RowsOf(j)) :
                 /\ RowsOf(j)[k].kept = (k <= nk)
                 /\ RowsOf(j)[k].kept = (RowsOf(j)[k].reason = "OK")
            /\ PosSet(RowsOf(j)) = PosSet(r.rows)
            /\ Cardinality(PosSet(RowsOf(j))) = Len(r.rows)
            /\ PosSet(RowsOf(j)) \cap SkippedPos(f) = {}

\* a.vcf was processed with both filters on: of its six data lines two are
\* kept, three dropped and one skipped
C1_Witness ==
    \E j \in 1..Len(summary_rows) :
        /\ vcf[j] = PathA /\ RowOk(j)
        /\ cfg.require_pass /\ cfg.drop_str_artifacts
        /\ summary_rows[j].kept_variants = Some(2)
        /\ summary_rows[j].dropped_variants = Some(3)
        /\ SkippedPos(FileA) = {104}

\* The per-file failures and the text of their exceptions: a missing file,
\* no header line, a header without a required column, a report whose name
\* leads into a directory that does not exist; None for a file that succeeds.
ErrorOf(f) ==
    IF ~f.exists THEN Some(f.path)
    ELSE IF HeaderLines(f) = <<>> THEN Some(MsgNoHeader)
    ELSE LET hdr == HeaderLines(f)[1].f IN
         IF \E c \in {CHROM, POS, ID, REF, ALT, QUAL, FILTER} : ~In(c, hdr)
         THEN Some(MsgColumns)
         ELSE IF In(FORMAT, hdr) /\ hdr[Len(hdr)] # FORMAT
                 /\ Contains(hdr[Len(hdr)], "/")
         THEN Some(MsgNoDir)
         ELSE None

\* C3: a file that fails does not stop the batch: the summary has one row per
\* path consumed, in input order; the row of a failed file has no kept and
\* dropped counts and carries the error's message; a failed file adds no rows
\* to the variants table and no report; the loop runs to the last path and
\* main returns 0.
C3_BatchSurvivesFailures ==
    /\ Len(summary_rows) = i
    /\ \A j \in 1..Len(summary_rows) :
         /\ summary_rows[j].vcf = vcf[j]
         /\ summary_rows[j].error = ErrorOf(File(vcf[j]))
         /\ ~RowOk(j) =>
              /\ summary_rows[j].kept_variants = None
              /\ summary_rows[j].dropped_variants = None
              /\ summary_rows[j].tmb_variants_per_mb = None
         /\ RowOk(j) =>
              /\ summary_rows[j].kept_variants # None
              /\ summary_rows[j].dropped_variants # None
    /\ Len(all_rows) = RowsBefore(Len(summary_rows) + 1)
    /\ Len(txt_paths) = Cardinality({j \in 1..Len(summary_rows) : RowOk(j)})
    /\ pc = "done" => (i = Len(vcf) /\ rc = Some(0))

\* main returned after a missing file followed by a.vcf: the first row has
\* the error, the second the counts of a.vcf
C3_Witness ==
    /\ pc = "done" /\ rc = Some(0)
    /\ vcf = <<PathM, PathA>>
    /\ Len(summary_rows) = 2
    /\ summary_rows[1].error = Some(PathM)
    /\ summary_rows[1].kept_variants = None
    /\ summary_rows[2].error = None
    /\ summary_rows[2].kept_variants # None
    /\ Len(all_rows) = 5

\* C4: when main ends, every input processed without error has its report
\* <sample>_TMB_report.txt in the output directory, holding the kept count
\* and the TMB of that input.
C4_ReportPerInput ==
    pc = "done" =>
        \A j \in 1..Len(summary_rows) : RowOk(j) =>
            \E e \in outdir :
                /\ e.name = summary_rows[j].sample \o ReportSuffix
                /\ e.content.kept = summary_rows[j].kept_variants[1]
                /\ e.content.tmb =
                     TmbLine(compute_tmb(summary_rows[j].kept_variants[1], cfg.panel_mb))

=============================================================================
